---- MODULE Spec2Model ----
(***************************************************************************)
(* Verification model of the result panel of the TTS workbench             *)
(* (frontend/src/pages/TTSAgent/components/ResultPanel.tsx):               *)
(*   - the timeline reconstructor (timeRanges) and the playback position   *)
(*     mapper (findCurrentDialogueIndex), in exact rational arithmetic;    *)
(*   - the playback state of the panel: the merged <audio> element, the    *)
(*     per-item <audio> elements, the React state of ResultPanel and of    *)
(*     each AudioFileItem, the pending play()/fetch continuations with the *)
(*     values their closures captured, and the 500 ms item-end timers.     *)
(***************************************************************************)
EXTENDS Integers, Sequences, FiniteSets, TLC

(***************************************************************************)
(* Bounds of the model.                                                    *)
(***************************************************************************)
\* number of per-item players of the playback model
NItems == 2
\* largest number of dialogue items of a timeline input
MaxItems == 3
\* largest merged duration (seconds) the metadata event reports
MaxD == 8
\* largest playback time (seconds) handed to the mapper, in steps of 1/2 s
MaxT == 11
\* pending 500 ms timers of the panel
MaxTimers == 1
\* continuations (fetch or play() promise) pending at the same time
MaxPending == 1
\* length (seconds) of the merged track of the playback model; the element
\* reports its time in steps of one second
TrackSec == 1
\* number of audio URLs a duration-probe batch goes through
NUrls == 2
\* number of runs of the duration-probe effect (mount and URL-list changes)
MaxBatches == 2
\* object URLs a voice card creates
MaxPreviewUrls == 2
\* voices a character can be given
NVoices == 2
\* `chunk` messages of an SSE response (the `result` message follows them)
MaxChunkMsgs == 2
\* sessions known to the backend
NSessions == 2
\* requests of the session hook pending at the same time
MaxOps == 2

(***************************************************************************)
(* Exact rational numbers <<n, d>>, d > 0, in lowest terms.  They stand    *)
(* for the JavaScript numbers of the panel (seconds, progress fractions).  *)
(***************************************************************************)
\* Euclid, as a recursive function so that TLC evaluates the arguments once
Gcd[a \in Nat, b \in Nat] == IF b = 0 THEN a ELSE Gcd[b, a % b]

Abs(a) == IF a < 0 THEN 0 - a ELSE a

\* the operations are functions of their operands, so that an operand is
\* evaluated once, like the operand of a JS operator
Rat[n \in Int, d \in Int] ==
    LET s == IF d < 0 THEN 0 - 1 ELSE 1
        g == Gcd[Abs(n), Abs(d)]
    IN  <<(s * n) \div g, (s * d) \div g>>

RInt(k) == <<k, 1>>
RZero == <<0, 1>>
ROne == <<1, 1>>
RAdd[a \in Int \X Int, b \in Int \X Int] ==
    Rat[a[1] * b[2] + b[1] * a[2], a[2] * b[2]]
RSub[a \in Int \X Int, b \in Int \X Int] ==
    Rat[a[1] * b[2] - b[1] * a[2], a[2] * b[2]]
RMul[a \in Int \X Int, b \in Int \X Int] == Rat[a[1] * b[1], a[2] * b[2]]
RDiv[a \in Int \X Int, b \in Int \X Int] == Rat[a[1] * b[2], a[2] * b[1]]
RLt[a \in Int \X Int, b \in Int \X Int] == a[1] * b[2] < b[1] * a[2]
RLe[a \in Int \X Int, b \in Int \X Int] == a[1] * b[2] <= b[1] * a[2]
RMax[a \in Int \X Int, b \in Int \X Int] == IF RLt[a, b] THEN b ELSE a

\* reduce((sum, d) => sum + d, 0)
RSum(s) ==
    LET acc[i \in 0..Len(s)] == IF i = 0 THEN RZero ELSE RAdd[acc[i - 1], s[i]]
    IN  acc[Len(s)]

\* "no index" (null) of the mapper and of the index state of the panel
NoIndex == 0 - 1

(***************************************************************************)
(* Timeline reconstructor: timeRanges (useMemo).                           *)
(*   dlg    : the dialogues, each given by its duration_ms (0 = absent)    *)
(*   loaded : loadedDurations, in seconds (rationals; 0 is falsy)          *)
(*   dur    : the merged duration D (rational, 0 = unknown)                *)
(***************************************************************************)
DEFAULT_GAP_SEC == <<1, 2>>

\* mutant of ItemDurationSec: the probed duration is ignored
ItemDurationSecNoProbe(dlg, loaded, i) ==
    IF dlg[i] # 0 THEN Rat[dlg[i], 1000] ELSE RInt(2)

\* loadedDurations[i] || (dialogue.duration_ms ? dialogue.duration_ms / 1000 : 2)
ItemDurationSec(dlg, loaded, i) ==
    IF i <= Len(loaded) /\ loaded[i] # RZero
    THEN loaded[i]
    ELSE IF dlg[i] # 0 THEN Rat[dlg[i], 1000] ELSE RInt(2)

ItemDurationsSec(dlg, loaded) ==
    [i \in 1..Len(dlg) |-> ItemDurationSec(dlg, loaded, i)]

\* mutants of InferredGapSec: the Math.max(..., 0) clamp left out; the
\* default gap used whatever D is
InferredGapSecNoClamp(ds, dur) ==
    IF RLt[RZero, dur] /\ Len(ds) > 1
    THEN RDiv[RSub[dur, RSum(ds)], RInt(Len(ds) - 1)]
    ELSE DEFAULT_GAP_SEC

InferredGapSecDefault(ds, dur) == DEFAULT_GAP_SEC

InferredGapSec(ds, dur) ==
    IF RLt[RZero, dur] /\ Len(ds) > 1
    THEN RMax[RDiv[RSub[dur, RSum(ds)], RInt(Len(ds) - 1)], RZero]
    ELSE DEFAULT_GAP_SEC

BaseTotalSec(ds, dur) ==
    RAdd[RSum(ds), RMul[InferredGapSec(ds, dur),
                        RInt(IF Len(ds) - 1 > 0 THEN Len(ds) - 1 ELSE 0)]]

\* mutant of Scale: no rescaling to the merged duration
ScaleUnscaled(ds, dur) == ROne

Scale(ds, dur) ==
    IF RLt[RZero, dur] /\ RLt[RZero, BaseTotalSec(ds, dur)]
    THEN RDiv[dur, BaseTotalSec(ds, dur)]
    ELSE ROne

\* mutant of RangesOf: the gap is added after the first item only
RangesOfGapOnce(ds, dur) ==
    LET scale == Scale(ds, dur)
        gap == InferredGapSec(ds, dur)
        currentStart[i \in 1..Len(ds)] ==
            IF i = 1 THEN RZero
            ELSE RAdd[RAdd[currentStart[i - 1], RMul[ds[i - 1], scale]],
                      IF i = 2 THEN RMul[gap, scale] ELSE RZero]
    IN  [i \in 1..Len(ds) |->
            [start |-> currentStart[i],
             end   |-> RAdd[currentStart[i], RMul[ds[i], scale]]]]

\* the loop of timeRanges: currentStart[i] is currentStart before item i
\* (1-based); it grows by durationSec * scale and, between items, by
\* inferredGapSec * scale
RangesOf(ds, dur) ==
    LET scale == Scale(ds, dur)
        gap == InferredGapSec(ds, dur)
        currentStart[i \in 1..Len(ds)] ==
            IF i = 1 THEN RZero
            ELSE RAdd[RAdd[currentStart[i - 1], RMul[ds[i - 1], scale]],
                      RMul[gap, scale]]
    IN  [i \in 1..Len(ds) |->
            [start |-> currentStart[i],
             end   |-> RAdd[currentStart[i], RMul[ds[i], scale]]]]

TimeRanges(dlg, loaded, dur) == RangesOf(ItemDurationsSec(dlg, loaded), dur)

(***************************************************************************)
(* Playback position mapper: findCurrentDialogueIndex.  Indices are the    *)
(* 0-based indices of the code; NoIndex is null.                           *)
(***************************************************************************)
\* mutant of InRange: the start of a range excluded
InRangeStrict(r, time) == RLt[r.start, time] /\ RLt[time, r.end]

\* time >= range.start && time < range.end
InRange(r, time) == RLe[r.start, time] /\ RLt[time, r.end]

FirstHit(ranges, time) ==
    IF \E i \in 1..Len(ranges) : InRange(ranges[i], time)
    THEN CHOOSE i \in 1..Len(ranges) :
            /\ InRange(ranges[i], time)
            /\ \A j \in 1..(i - 1) : ~InRange(ranges[j], time)
    ELSE 0

\* mutant of FindCurrentDialogueIndex: a time in a gap is given to the last
\* range, like a time past the end
FindCurrentDialogueIndexNoGap(ranges, time) ==
    LET h == FirstHit(ranges, time)
    IN  IF h > 0
        THEN LET segmentDuration == RSub[ranges[h].end, ranges[h].start]
                 timeInSegment == RSub[time, ranges[h].start]
             IN  [index |-> h - 1,
                  progress |-> IF RLt[RZero, segmentDuration]
                               THEN RDiv[timeInSegment, segmentDuration]
                               ELSE RZero]
        ELSE IF Len(ranges) > 0
             THEN [index |-> Len(ranges) - 1, progress |-> ROne]
             ELSE [index |-> NoIndex, progress |-> RZero]

FindCurrentDialogueIndex(ranges, time) ==
    LET h == FirstHit(ranges, time)
    IN  IF h > 0
        THEN LET segmentDuration == RSub[ranges[h].end, ranges[h].start]
                 timeInSegment == RSub[time, ranges[h].start]
             IN  [index |-> h - 1,
                  progress |-> IF RLt[RZero, segmentDuration]
                               THEN RDiv[timeInSegment, segmentDuration]
                               ELSE RZero]
        ELSE IF Len(ranges) > 0 /\ RLe[ranges[Len(ranges)].start, time]
             THEN [index |-> Len(ranges) - 1, progress |-> ROne]
             ELSE [index |-> NoIndex, progress |-> RZero]


(***************************************************************************)
(* State.                                                                  *)
(***************************************************************************)
VARIABLES
    \* ResultPanel props and React state
    dialogues,          \* props.dialogues: duration_ms of each item (0 = absent)
    loadedDurations,    \* useState<number[]>: probed durations (seconds)
    duration,           \* useState: merged duration D, 0 until loadedmetadata
    timeRanges,         \* useMemo over [dialogues, duration, loadedDurations]
    currentTime,        \* useState: displayed time of the merged player
    playingMerged,      \* useState<boolean>
    playingSource,      \* useState<'merged' | 'item' | null>
    playingItemIndex,   \* useState<number | null>
    highlightIndex,     \* useState<number | null>
    charProgress,       \* useState<number>
    mergedPlayableUrl,  \* useState: TRUE when an object URL is cached
    \* environment of the panel
    auth,               \* needsAuthHeader(url): audio is fetched as a blob first
    mergedEl,           \* merged <audio>: st is "paused", "starting" (play()
                        \* called, its promise pending) or "playing"; time is
                        \* its currentTime; meta is "none", "loading", "loaded"
    mergedOp,           \* pending toggleMergedPlay continuation: [st, capDuration]
    \* AudioFileItem i (0-based index of the panel)
    itemIsPlaying,      \* useState<boolean> of each item
    itemEl,             \* item <audio>: "paused", "starting" or "playing"
    itemOp,             \* pending togglePlay continuation: [st, capIdx, capSrc,
                        \* mergedWas]; mergedWas observes, while st = "started",
                        \* the state the merged element had at the click
    itemPlayableUrl,    \* useState playableUrl: TRUE when an object URL is cached
    timers,             \* the pending 500 ms timers of handleItemPlayEnd whose
                        \* closure captured playingSource = 'item', oldest
                        \* first: the index each was scheduled for
    \* observation of the mapper as a pure function
    mapTime,            \* the time last handed to findCurrentDialogueIndex
    mapResult,          \* what it returned
    \* the duration-probe effect
    effect,             \* how often the effect has run (0: not yet)
    batch,              \* the latest run: [st, cancelled, durations]; st is
                        \* "none", "running", "done" (setLoadedDurations
                        \* called) or "stopped" (the loop returned without it)
    probe,              \* per URL, getDurationForUrl of the latest run:
                        \* [st, timer, fetch, load, dur, url, value]
    \* one VoiceCard of VoiceMappingList
    cardMounted,        \* the card is mounted
    voiceId,            \* props.mapping.voice_id
    previewUrl,         \* useState<string | null>: an object URL (1, 2, ...)
                        \* or NoUrl
    isPreviewLoading,   \* useState<boolean>
    isChanging,         \* useState<boolean>
    cardIsPlaying,      \* useState<boolean> isPlaying of the card
    cardSrc,            \* audioRef.current.src: an object URL or NoUrl
    previewOp,          \* pending togglePlay continuation of the card:
                        \* [st, wasPlaying]; st is "idle", "fetch" (previewVoice
                        \* pending) or "play" (play() pending)
    selectOp,           \* the voice of the pending handleSelectVoice, or 0
    createdUrls,        \* how many object URLs the card has created
    revoked,            \* per object URL of the card, the number of
                        \* URL.revokeObjectURL calls made with it
    \* one call of analyzeDialogueStream / matchVoicesStream (api.ts)
    streamFn,           \* "analyze" or "match": the function called
    sent,               \* the messages the server sends, in order
    wire,               \* the characters of the response not yet read
    sseBuffer,          \* `buffer` of analyzeDialogueStream
    delivered,          \* the callbacks invoked so far, in order
    readerDone,         \* reader.read() has returned done
    \* useTTSSession
    session,            \* useState<TTSSession | null>
    loading,            \* useState<boolean>
    error,              \* useState<string | null>: TRUE when a message is set
    isStreaming,        \* useState<boolean>
    cancelStreamRef,    \* useRef: the request whose stream it cancels, or 0
    ops                 \* the calls of the hook's operations, by number:
                        \* [kind, promise, stream, outcome, sid, prevStatus,
                        \* latest]; sid and prevStatus are the session_id and
                        \* the status of the `session` the callback closed
                        \* over, latest marks the latest loadSession call

tlvars == <<dialogues, loadedDurations, duration, timeRanges, mapTime,
            mapResult>>

pbvars == <<currentTime, playingMerged, playingSource, playingItemIndex,
            highlightIndex, charProgress, mergedPlayableUrl, auth, mergedEl,
            mergedOp, itemIsPlaying, itemEl, itemOp, itemPlayableUrl, timers>>

prvars == <<effect, batch, probe>>

vcvars == <<cardMounted, voiceId, previewUrl, isPreviewLoading, isChanging,
            cardIsPlaying, cardSrc, previewOp, selectOp, createdUrls, revoked>>

ssvars == <<streamFn, sent, wire, sseBuffer, delivered, readerDone>>

hkvars == <<session, loading, error, isStreaming, cancelStreamRef, ops>>

vars == <<dialogues, loadedDurations, duration, timeRanges, mapTime, mapResult,
          currentTime, playingMerged, playingSource, playingItemIndex,
          highlightIndex, charProgress, mergedPlayableUrl, auth, mergedEl,
          mergedOp, itemIsPlaying, itemEl, itemOp, itemPlayableUrl, timers,
          effect, batch, probe,
          cardMounted, voiceId, previewUrl, isPreviewLoading, isChanging,
          cardIsPlaying, cardSrc, previewOp, selectOp, createdUrls, revoked,
          streamFn, sent, wire, sseBuffer, delivered, readerDone,
          session, loading, error, isStreaming, cancelStreamRef, ops>>

Urls == 1..NUrls

\* getDurationForUrl not called yet
IdleProbe ==
    [st |-> "idle", timer |-> FALSE, fetch |-> "none", load |-> "none",
     dur |-> 0, url |-> "none", value |-> 0]

\* the duration-probe effect has not run
ProberIdle ==
    /\ effect = 0
    /\ batch = [st |-> "none", cancelled |-> FALSE, durations |-> <<>>]
    /\ probe = [k \in Urls |-> IdleProbe]

\* previewUrl === null, and an <audio> without src
NoUrl == 0

PreviewUrls == 1..MaxPreviewUrls

Voices == 1..NVoices

IdlePreviewOp == [st |-> "idle", wasPlaying |-> FALSE]

\* the VoiceCard right after it mounted (the effect on mapping.voice_id has
\* run: it finds previewUrl null and an element without src)
VoiceCardIdle ==
    /\ cardMounted = TRUE
    /\ voiceId = 1
    /\ previewUrl = NoUrl
    /\ isPreviewLoading = FALSE
    /\ isChanging = FALSE
    /\ cardIsPlaying = FALSE
    /\ cardSrc = NoUrl
    /\ previewOp = IdlePreviewOp
    /\ selectOp = 0
    /\ createdUrls = 0
    /\ revoked = [u \in PreviewUrls |-> 0]

\* no stream function has been called
StreamIdle ==
    /\ streamFn = "none"
    /\ sent = <<>>
    /\ wire = <<>>
    /\ sseBuffer = <<>>
    /\ delivered = <<>>
    /\ readerDone = FALSE

\* session === null
NoSession ==
    [id |-> 0, status |-> "none", dialogue_list |-> 0, voice_mapping |-> 0]

OpIds == 1..MaxOps

\* a number not used by a call
FreeOp ==
    [kind |-> "none", promise |-> "none", stream |-> "none",
     outcome |-> "none", sid |-> 0, prevStatus |-> "none", latest |-> FALSE]

\* useTTSSession right after the first render: the useState initial values
HookIdle ==
    /\ session = NoSession
    /\ loading = FALSE
    /\ error = FALSE
    /\ isStreaming = FALSE
    /\ cancelStreamRef = 0
    /\ ops = [o \in OpIds |-> FreeOp]

Items == 0..(NItems - 1)

NoResult == [index |-> NoIndex, progress |-> RZero]

\* mapTime before the mapper was called
NoTime == <<NoIndex, 1>>

\* React state and elements right after the panel mounted
PanelIdle ==
    /\ currentTime = RZero
    /\ playingMerged = FALSE
    /\ playingSource = "null"
    /\ playingItemIndex = NoIndex
    /\ highlightIndex = NoIndex
    /\ charProgress = RZero
    /\ mergedPlayableUrl = FALSE
    /\ mergedEl = [st |-> "paused", time |-> 0, meta |-> "none"]
    /\ mergedOp = [st |-> "idle", capDuration |-> RZero]
    /\ itemIsPlaying = [i \in Items |-> FALSE]
    /\ itemEl = [i \in Items |-> "paused"]
    /\ itemOp = [i \in Items |-> [st |-> "idle", capIdx |-> NoIndex,
                                  capSrc |-> "null", mergedWas |-> "paused"]]
    /\ itemPlayableUrl = [i \in Items |-> FALSE]
    /\ timers = <<>>

(***************************************************************************)
(* Specification of the timeline functions: the inputs are drawn at mount, *)
(* the merged duration arrives with loadedmetadata, and the mapper is      *)
(* applied to playback times.                                              *)
(***************************************************************************)
\* duration_ms of a dialogue item (0 = absent) and a probed duration (0 = none)
DurationMsChoices == {0, 1000}
LoadedChoices == {RZero, RInt(3)}

TLInit ==
    /\ \E n \in 0..MaxItems :
        /\ dialogues \in [1..n -> DurationMsChoices]
        /\ loadedDurations \in [1..n -> LoadedChoices]
    /\ duration = RZero
    /\ timeRanges = TimeRanges(dialogues, loadedDurations, RZero)
    /\ mapTime = NoTime
    /\ mapResult = NoResult
    /\ auth = FALSE
    /\ PanelIdle
    /\ ProberIdle
    /\ VoiceCardIdle
    /\ StreamIdle
    /\ HookIdle

\* <audio onLoadedMetadata>: setDuration(e.currentTarget.duration), once the
\* merged source has loaded, and the re-render that recomputes timeRanges;
\* playback then starts from time 0
TLLoadedMetadata ==
    /\ duration = RZero
    /\ \E d \in 1..MaxD :
        /\ duration' = RInt(d)
        /\ timeRanges' = TimeRanges(dialogues, loadedDurations, RInt(d))
    /\ mapTime' = NoTime
    /\ mapResult' = NoResult
    /\ UNCHANGED <<dialogues, loadedDurations>>
    /\ UNCHANGED pbvars
    /\ UNCHANGED <<prvars, vcvars, ssvars, hkvars>>

\* findCurrentDialogueIndex(time) on the current timeRanges, for the playback
\* time reached: 0 first, then the same time again or half a second later
TLLocate ==
    /\ \E t \in (IF mapTime = NoTime THEN {RZero}
                 ELSE {mapTime, RAdd[mapTime, Rat[1, 2]]}) :
        /\ RLe[t, RInt(MaxT)]
        /\ mapTime' = t
        /\ mapResult' = FindCurrentDialogueIndex(timeRanges, t)
    /\ UNCHANGED <<dialogues, loadedDurations, duration, timeRanges>>
    /\ UNCHANGED pbvars
    /\ UNCHANGED <<prvars, vcvars, ssvars, hkvars>>

TLNext == TLLoadedMetadata \/ TLLocate

SpecTimeline == TLInit /\ [][TLNext]_vars


(***************************************************************************)
(* Specification of the playback state of the panel.                       *)
(*                                                                         *)
(* A handler runs to its first await in one step; what follows an await    *)
(* (the fetch of the blob, the promise of play()) is a later step that     *)
(* works on the values the handler's closure captured when it was called.  *)
(* togglePlay of an item is cut once more, between onPlayStart() and the   *)
(* rest of the handler ("started"); no other step is taken in between.     *)
(* A control is not clicked again while its previous click is pending.     *)
(***************************************************************************)
IdleItemOp ==
    [st |-> "idle", capIdx |-> NoIndex, capSrc |-> "null", mergedWas |-> "paused"]
IdleMergedOp == [st |-> "idle", capDuration |-> RZero]

PBInit ==
    /\ dialogues = [i \in 1..NItems |-> 0]
    /\ loadedDurations = <<>>
    /\ duration = RZero
    /\ timeRanges = TimeRanges(dialogues, loadedDurations, RZero)
    /\ mapTime = NoTime
    /\ mapResult = NoResult
    /\ auth \in BOOLEAN
    /\ PanelIdle
    /\ ProberIdle
    /\ VoiceCardIdle
    /\ StreamIdle
    /\ HookIdle

\* no togglePlay is between onPlayStart() and the rest of the handler
NoSync == \A j \in Items : itemOp[j].st # "started"

\* the number of pending continuations
PendingOps ==
    Cardinality({j \in Items : itemOp[j].st # "idle"})
        + (IF mergedOp.st # "idle" THEN 1 ELSE 0)

\* what handleItemPlayEnd(i) reads of the state it closes over: whether
\* playingItemIndex is i and, if so, whether playingSource is 'item'
SeenIdx(i, idx) == IF idx = i THEN i ELSE NoIndex
SeenSrc(i, idx, src) == IF idx = i /\ src = "item" THEN "item" ELSE "null"

\* handleItemPlayEnd(index) as called from a closure that sees
\* playingItemIndex = idxSeen and playingSource = srcSeen.  The timer callback
\* tests the captured playingSource: only a timer that captured 'item' acts.
HandleItemPlayEnd(i, idxSeen, srcSeen) ==
    IF idxSeen = i
    THEN /\ playingItemIndex' = NoIndex
         /\ charProgress' = RZero
         /\ IF srcSeen = "item"
            THEN /\ Len(timers) < MaxTimers
                 /\ timers' = Append(timers, i)
            ELSE UNCHANGED timers
    ELSE UNCHANGED <<playingItemIndex, charProgress, timers>>

\* element.play(): an ended element starts again from 0; the first play()
\* of the merged element follows src = ...; load()
InvokeMergedPlay ==
    [st |-> "starting",
     time |-> IF mergedEl.time = TrackSec THEN 0 ELSE mergedEl.time,
     meta |-> IF mergedEl.meta = "none" THEN "loading" ELSE mergedEl.meta]

\* AudioFileItem.togglePlay, isPlaying branch: pause, setIsPlaying(false),
\* onPlayEnd()
ItemPause(i) ==
    /\ NoSync
    /\ itemOp[i].st = "idle"
    /\ itemIsPlaying[i]
    /\ itemEl' = [itemEl EXCEPT ![i] = "paused"]
    /\ itemIsPlaying' = [itemIsPlaying EXCEPT ![i] = FALSE]
    /\ HandleItemPlayEnd(i, playingItemIndex, playingSource)
    /\ UNCHANGED <<tlvars, prvars, vcvars, ssvars, hkvars, currentTime, playingMerged, playingSource,
                   highlightIndex, mergedPlayableUrl, auth, mergedEl, mergedOp,
                   itemOp, itemPlayableUrl>>

\* mutant of HandleItemPlayStart: the merged element is not paused
HandleItemPlayStartNoPause(i) ==
    /\ UNCHANGED <<mergedEl, playingMerged>>
    /\ playingSource' = "item"
    /\ playingItemIndex' = i
    /\ highlightIndex' = i
    /\ charProgress' = RZero

\* handleItemPlayStart(index)
HandleItemPlayStart(i) ==
    /\ IF playingMerged
       THEN /\ mergedEl' = [mergedEl EXCEPT !.st = "paused"]
            /\ playingMerged' = FALSE
       ELSE UNCHANGED <<mergedEl, playingMerged>>
    /\ playingSource' = "item"
    /\ playingItemIndex' = i
    /\ highlightIndex' = i
    /\ charProgress' = RZero

\* AudioFileItem.togglePlay, play branch, up to and including onPlayStart();
\* the closure keeps the playingItemIndex and playingSource of this render
\* for the onPlayEnd() of its catch block (kept as far as handleItemPlayEnd
\* reads them)
ItemPlayClick(i) ==
    /\ NoSync
    /\ itemOp[i].st = "idle"
    /\ ~itemIsPlaying[i]
    /\ PendingOps < MaxPending
    /\ HandleItemPlayStart(i)
    /\ itemOp' = [itemOp EXCEPT ![i] =
            [st |-> "started",
             capIdx |-> SeenIdx(i, playingItemIndex),
             capSrc |-> SeenSrc(i, playingItemIndex, playingSource),
             mergedWas |-> mergedEl.st]]
    /\ UNCHANGED <<tlvars, prvars, vcvars, ssvars, hkvars, currentTime, mergedPlayableUrl, auth, mergedOp,
                   itemIsPlaying, itemEl, itemPlayableUrl, timers>>

\* ... the rest of the handler to its first await: the fetch of the blob
\* when the URL needs the header and none is cached, else play()
ItemPlayProceed(i) ==
    /\ itemOp[i].st = "started"
    /\ IF auth /\ ~itemPlayableUrl[i]
       THEN /\ itemOp' = [itemOp EXCEPT ![i].st = "fetch",
                                       ![i].mergedWas = "paused"]
            /\ UNCHANGED itemEl
       ELSE /\ itemOp' = [itemOp EXCEPT ![i].st = "play",
                                       ![i].mergedWas = "paused"]
            /\ itemEl' = [itemEl EXCEPT ![i] = "starting"]
    /\ UNCHANGED <<tlvars, prvars, vcvars, ssvars, hkvars, currentTime, playingMerged, playingSource,
                   playingItemIndex, highlightIndex, charProgress,
                   mergedPlayableUrl, auth, mergedEl, mergedOp, itemIsPlaying,
                   itemPlayableUrl, timers>>

\* the fetch succeeded: createObjectURL, setPlayableUrl, src, load(), play()
ItemFetchDone(i) ==
    /\ NoSync
    /\ itemOp[i].st = "fetch"
    /\ itemPlayableUrl' = [itemPlayableUrl EXCEPT ![i] = TRUE]
    /\ itemOp' = [itemOp EXCEPT ![i].st = "play"]
    /\ itemEl' = [itemEl EXCEPT ![i] = "starting"]
    /\ UNCHANGED <<tlvars, prvars, vcvars, ssvars, hkvars, currentTime, playingMerged, playingSource,
                   playingItemIndex, highlightIndex, charProgress,
                   mergedPlayableUrl, auth, mergedEl, mergedOp, itemIsPlaying,
                   timers>>

\* the fetch failed (network error or !response.ok): catch -> onPlayEnd()
ItemFetchFails(i) ==
    /\ NoSync
    /\ itemOp[i].st = "fetch"
    /\ HandleItemPlayEnd(i, itemOp[i].capIdx, itemOp[i].capSrc)
    /\ itemOp' = [itemOp EXCEPT ![i] = IdleItemOp]
    /\ UNCHANGED <<tlvars, prvars, vcvars, ssvars, hkvars, currentTime, playingMerged, playingSource,
                   highlightIndex, mergedPlayableUrl, auth, mergedEl, mergedOp,
                   itemIsPlaying, itemEl, itemPlayableUrl>>

\* the effect of AudioFileItem on [shouldStopPlaying, isPlaying]:
\* shouldStopPlaying = (playingSource === 'merged' && playingMerged)
ShouldStopPlaying(src, pm) == src = "merged" /\ pm

\* play() resolved: setIsPlaying(true); the re-render runs the effect
ItemPlayResolves(i) ==
    /\ NoSync
    /\ itemOp[i].st = "play"
    /\ itemEl[i] = "starting"
    /\ IF ShouldStopPlaying(playingSource, playingMerged)
       THEN /\ itemEl' = [itemEl EXCEPT ![i] = "paused"]
            /\ itemIsPlaying' = [itemIsPlaying EXCEPT ![i] = FALSE]
       ELSE /\ itemEl' = [itemEl EXCEPT ![i] = "playing"]
            /\ itemIsPlaying' = [itemIsPlaying EXCEPT ![i] = TRUE]
    /\ itemOp' = [itemOp EXCEPT ![i] = IdleItemOp]
    /\ UNCHANGED <<tlvars, prvars, vcvars, ssvars, hkvars, currentTime, playingMerged, playingSource,
                   playingItemIndex, highlightIndex, charProgress,
                   mergedPlayableUrl, auth, mergedEl, mergedOp,
                   itemPlayableUrl, timers>>

\* play() rejected (autoplay policy, decode error): catch -> onPlayEnd()
ItemPlayRejects(i) ==
    /\ NoSync
    /\ itemOp[i].st = "play"
    /\ itemEl[i] = "starting"
    /\ itemEl' = [itemEl EXCEPT ![i] = "paused"]
    /\ HandleItemPlayEnd(i, itemOp[i].capIdx, itemOp[i].capSrc)
    /\ itemOp' = [itemOp EXCEPT ![i] = IdleItemOp]
    /\ UNCHANGED <<tlvars, prvars, vcvars, ssvars, hkvars, currentTime, playingMerged, playingSource,
                   highlightIndex, mergedPlayableUrl, auth, mergedEl, mergedOp,
                   itemIsPlaying, itemPlayableUrl>>

\* <audio onEnded> of an item: handleEnded
ItemEnded(i) ==
    /\ NoSync
    /\ itemEl[i] = "playing"
    /\ itemEl' = [itemEl EXCEPT ![i] = "paused"]
    /\ itemIsPlaying' = [itemIsPlaying EXCEPT ![i] = FALSE]
    /\ HandleItemPlayEnd(i, playingItemIndex, playingSource)
    /\ UNCHANGED <<tlvars, prvars, vcvars, ssvars, hkvars, currentTime, playingMerged, playingSource,
                   highlightIndex, mergedPlayableUrl, auth, mergedEl, mergedOp,
                   itemOp, itemPlayableUrl>>

\* the oldest 500 ms timer of handleItemPlayEnd fires (the delays are equal,
\* so the timers fire in the order they were set); it captured 'item'
TimerFires ==
    /\ NoSync
    /\ timers # <<>>
    /\ timers' = Tail(timers)
    /\ highlightIndex' = NoIndex
    /\ playingSource' = "null"
    /\ UNCHANGED <<tlvars, prvars, vcvars, ssvars, hkvars, currentTime, playingMerged, playingItemIndex,
                   charProgress, mergedPlayableUrl, auth, mergedEl, mergedOp,
                   itemIsPlaying, itemEl, itemOp, itemPlayableUrl>>

\* toggleMergedPlay, playingMerged branch
MergedPause ==
    /\ NoSync
    /\ mergedOp.st = "idle"
    /\ playingMerged
    /\ mergedEl' = [mergedEl EXCEPT !.st = "paused"]
    /\ playingMerged' = FALSE
    /\ playingSource' = "null"
    /\ UNCHANGED <<tlvars, prvars, vcvars, ssvars, hkvars, currentTime, playingItemIndex, highlightIndex,
                   charProgress, mergedPlayableUrl, auth, mergedOp,
                   itemIsPlaying, itemEl, itemOp, itemPlayableUrl, timers>>

\* toggleMergedPlay, play branch, to its first await; the closure keeps the
\* timeRanges of this render, that is the duration of this render
MergedPlayClick ==
    /\ NoSync
    /\ mergedOp.st = "idle"
    /\ ~playingMerged
    /\ PendingOps < MaxPending
    /\ playingItemIndex' = NoIndex
    /\ IF auth /\ ~mergedPlayableUrl
       THEN /\ mergedOp' = [st |-> "fetch", capDuration |-> duration]
            /\ UNCHANGED mergedEl
       ELSE /\ mergedOp' = [st |-> "play", capDuration |-> duration]
            /\ mergedEl' = InvokeMergedPlay
    /\ UNCHANGED <<tlvars, prvars, vcvars, ssvars, hkvars, currentTime, playingMerged, playingSource,
                   highlightIndex, charProgress, mergedPlayableUrl, auth,
                   itemIsPlaying, itemEl, itemOp, itemPlayableUrl, timers>>

MergedFetchDone ==
    /\ NoSync
    /\ mergedOp.st = "fetch"
    /\ mergedPlayableUrl' = TRUE
    /\ mergedOp' = [mergedOp EXCEPT !.st = "play"]
    /\ mergedEl' = InvokeMergedPlay
    /\ UNCHANGED <<tlvars, prvars, vcvars, ssvars, hkvars, currentTime, playingMerged, playingSource,
                   playingItemIndex, highlightIndex, charProgress, auth,
                   itemIsPlaying, itemEl, itemOp, itemPlayableUrl, timers>>

\* catch: console.error only
MergedFetchFails ==
    /\ NoSync
    /\ mergedOp.st = "fetch"
    /\ mergedOp' = IdleMergedOp
    /\ UNCHANGED <<tlvars, prvars, vcvars, ssvars, hkvars, currentTime, playingMerged, playingSource,
                   playingItemIndex, highlightIndex, charProgress,
                   mergedPlayableUrl, auth, mergedEl, itemIsPlaying, itemEl,
                   itemOp, itemPlayableUrl, timers>>

\* <audio onLoadedMetadata> of the merged element: setDuration, and the
\* re-render that recomputes timeRanges
MergedLoadedMetadata ==
    /\ NoSync
    /\ mergedEl.meta = "loading"
    /\ mergedEl' = [mergedEl EXCEPT !.meta = "loaded"]
    /\ duration' = RInt(TrackSec)
    /\ timeRanges' = TimeRanges(dialogues, loadedDurations, RInt(TrackSec))
    /\ UNCHANGED <<dialogues, loadedDurations, mapTime, mapResult, prvars, vcvars, ssvars, hkvars,
                   currentTime, playingMerged, playingSource, playingItemIndex,
                   highlightIndex, charProgress, mergedPlayableUrl, auth,
                   mergedOp, itemIsPlaying, itemEl, itemOp, itemPlayableUrl,
                   timers>>

\* play() of the merged element resolved: the continuation of toggleMergedPlay
\* (with the timeRanges it captured), then the re-render and the items' effect
MergedPlayResolves ==
    /\ NoSync
    /\ mergedOp.st = "play"
    /\ mergedEl.st = "starting"
    /\ mergedEl.meta = "loaded"
    /\ mergedEl' = [mergedEl EXCEPT !.st = "playing"]
    /\ playingMerged' = TRUE
    /\ playingSource' = "merged"
    /\ LET r == FindCurrentDialogueIndex(
                    TimeRanges(dialogues, loadedDurations, mergedOp.capDuration),
                    RInt(mergedEl.time))
       IN  /\ charProgress' = r.progress
           /\ highlightIndex' = IF r.index # NoIndex THEN r.index ELSE highlightIndex
    /\ itemEl' = [i \in Items |-> IF itemIsPlaying[i] THEN "paused" ELSE itemEl[i]]
    /\ itemIsPlaying' = [i \in Items |-> FALSE]
    /\ mergedOp' = IdleMergedOp
    /\ UNCHANGED <<tlvars, prvars, vcvars, ssvars, hkvars, currentTime, playingItemIndex, mergedPlayableUrl,
                   auth, itemOp, itemPlayableUrl, timers>>

\* play() of the merged element rejected: catch, console.error only
MergedPlayRejects ==
    /\ NoSync
    /\ mergedOp.st = "play"
    /\ mergedEl.st = "starting"
    /\ mergedEl' = [mergedEl EXCEPT !.st = "paused"]
    /\ mergedOp' = IdleMergedOp
    /\ UNCHANGED <<tlvars, prvars, vcvars, ssvars, hkvars, currentTime, playingMerged, playingSource,
                   playingItemIndex, highlightIndex, charProgress,
                   mergedPlayableUrl, auth, itemIsPlaying, itemEl, itemOp,
                   itemPlayableUrl, timers>>

\* mutants of MergedTimeUpdate: the test of playingSource left out; the
\* highlight not moved
MergedTimeUpdateUnguarded ==
    /\ NoSync
    /\ mergedEl.st = "playing"
    /\ mergedEl.time < TrackSec
    /\ mergedEl' = [mergedEl EXCEPT !.time = @ + 1]
    /\ currentTime' = RInt(mergedEl.time + 1)
    /\ LET r == FindCurrentDialogueIndex(timeRanges, RInt(mergedEl.time + 1))
       IN  /\ charProgress' = r.progress
           /\ highlightIndex' =
                 IF r.index # NoIndex /\ r.index # highlightIndex
                 THEN r.index ELSE highlightIndex
    /\ UNCHANGED <<tlvars, prvars, vcvars, ssvars, hkvars, playingMerged, playingSource, playingItemIndex,
                   mergedPlayableUrl, auth, mergedOp, itemIsPlaying, itemEl,
                   itemOp, itemPlayableUrl, timers>>

MergedTimeUpdateNoHighlight ==
    /\ NoSync
    /\ mergedEl.st = "playing"
    /\ mergedEl.time < TrackSec
    /\ mergedEl' = [mergedEl EXCEPT !.time = @ + 1]
    /\ currentTime' = RInt(mergedEl.time + 1)
    /\ IF playingSource = "merged"
       THEN charProgress' =
                FindCurrentDialogueIndex(timeRanges, RInt(mergedEl.time + 1)).progress
       ELSE UNCHANGED charProgress
    /\ UNCHANGED <<tlvars, prvars, vcvars, ssvars, hkvars, playingMerged, playingSource, playingItemIndex,
                   highlightIndex, mergedPlayableUrl, auth, mergedOp,
                   itemIsPlaying, itemEl, itemOp, itemPlayableUrl, timers>>

\* <audio onTimeUpdate> of the merged element: handleMergedTimeUpdate(time)
MergedTimeUpdate ==
    /\ NoSync
    /\ mergedEl.st = "playing"
    /\ mergedEl.time < TrackSec
    /\ mergedEl' = [mergedEl EXCEPT !.time = @ + 1]
    /\ currentTime' = RInt(mergedEl.time + 1)
    /\ IF playingSource = "merged"
       THEN LET r == FindCurrentDialogueIndex(timeRanges, RInt(mergedEl.time + 1))
            IN  /\ charProgress' = r.progress
                /\ highlightIndex' =
                      IF r.index # NoIndex /\ r.index # highlightIndex
                      THEN r.index ELSE highlightIndex
       ELSE UNCHANGED <<charProgress, highlightIndex>>
    /\ UNCHANGED <<tlvars, prvars, vcvars, ssvars, hkvars, playingMerged, playingSource, playingItemIndex,
                   mergedPlayableUrl, auth, mergedOp, itemIsPlaying, itemEl,
                   itemOp, itemPlayableUrl, timers>>

\* <audio onEnded> of the merged element: handleMergedEnded
MergedEnded ==
    /\ NoSync
    /\ mergedEl.st = "playing"
    /\ mergedEl.time = TrackSec
    /\ mergedEl' = [mergedEl EXCEPT !.st = "paused"]
    /\ playingMerged' = FALSE
    /\ playingSource' = "null"
    /\ highlightIndex' = NoIndex
    /\ charProgress' = RZero
    /\ UNCHANGED <<tlvars, prvars, vcvars, ssvars, hkvars, currentTime, playingItemIndex, mergedPlayableUrl,
                   auth, mergedOp, itemIsPlaying, itemEl, itemOp,
                   itemPlayableUrl, timers>>

PBNext ==
    \/ \E i \in Items : ItemEnded(i)
    \/ \E i \in Items : ItemPause(i)
    \/ \E i \in Items : ItemPlayClick(i)
    \/ \E i \in Items : ItemPlayProceed(i)
    \/ \E i \in Items : ItemFetchDone(i)
    \/ \E i \in Items : ItemFetchFails(i)
    \/ \E i \in Items : ItemPlayResolves(i)
    \/ \E i \in Items : ItemPlayRejects(i)
    \/ TimerFires
    \/ MergedPause
    \/ MergedPlayClick
    \/ MergedFetchDone
    \/ MergedFetchFails
    \/ MergedLoadedMetadata
    \/ MergedPlayResolves
    \/ MergedPlayRejects
    \/ MergedTimeUpdate
    \/ MergedEnded

Spec == PBInit /\ [][PBNext]_vars


(***************************************************************************)
(* Specification of the duration prober: the effect on audioFileUrls.       *)
(*                                                                         *)
(* A run of the effect (a batch) goes through the URLs one after the other *)
(* with getDurationForUrl.  What follows the settling of a probe (the      *)
(* revoke of its object URL, durations.push, the test of cancelled, the    *)
(* synchronous start of the next probe or setLoadedDurations) runs as      *)
(* microtasks before any other event and is part of the step that settles. *)
(* The cleanup of the effect sets cancelled and aborts the controller; a   *)
(* change of the URL list runs the cleanup and the next run in one commit. *)
(* The model follows the latest run: a cancelled run has returned from its *)
(* loop in the step of the cleanup, and its elements are dropped when the  *)
(* next run starts.                                                        *)
(***************************************************************************)
\* audio.duration (seconds) an element reports with loadedmetadata
ProbedSec == {3}

\* value || 2
OrTwo(v) == IF v = 0 THEN 2 ELSE v

\* getDurationForUrl up to its first await: the 8 s timer is set, the
\* listeners are added, and the blob fetch is started when the URL needs the
\* header, else audio.src is set and load() called
StartProbe ==
    [st |-> "pending", timer |-> TRUE,
     fetch |-> IF auth THEN "inflight" ELSE "none",
     load |-> IF auth THEN "none" ELSE "loading",
     dur |-> 0, url |-> "none", value |-> 0]

\* a run of the effect that has just started
StartBatch == [st |-> "running", cancelled |-> FALSE, durations |-> <<>>]
StartProbes == [k \in Urls |-> IF k = 1 THEN StartProbe ELSE IdleProbe]

\* the probe after settle(v) and the line after the await:
\* settled = true, clearTimeout, resolve(v || 2), if (objectUrl) revoke
SettledProbe(pr, k, v) ==
    [pr EXCEPT ![k].st = "settled",
               ![k].timer = FALSE,
               ![k].value = v,
               ![k].url = IF @ = "live" THEN "revoked" ELSE @]

\* mutants of LoopAfter: cancelled is not tested; the list is published
\* after every probe
LoopAfterNoCancelCheck(bt, pr, k, v) ==
    LET ds == Append(bt.durations, v)
    IN  IF k < NUrls
        THEN [batch |-> [bt EXCEPT !.durations = ds],
              probe |-> [pr EXCEPT ![k + 1] = StartProbe],
              publish |-> FALSE]
        ELSE [batch |-> [bt EXCEPT !.st = "done", !.durations = ds],
              probe |-> pr,
              publish |-> TRUE]

LoopAfterPublishEach(bt, pr, k, v) ==
    LET ds == Append(bt.durations, v)
    IN  IF bt.cancelled
        THEN [batch |-> [bt EXCEPT !.st = "stopped", !.durations = ds],
              probe |-> pr,
              publish |-> FALSE]
        ELSE IF k < NUrls
        THEN [batch |-> [bt EXCEPT !.durations = ds],
              probe |-> [pr EXCEPT ![k + 1] = StartProbe],
              publish |-> TRUE]
        ELSE [batch |-> [bt EXCEPT !.st = "done", !.durations = ds],
              probe |-> pr,
              publish |-> TRUE]

\* the loop of the effect after probe k returned v: durations.push(v), then
\* if (cancelled) return, the next probe, or after the last URL
\* if (!cancelled) setLoadedDurations(durations)
LoopAfter(bt, pr, k, v) ==
    LET ds == Append(bt.durations, v)
    IN  IF bt.cancelled
        THEN [batch |-> [bt EXCEPT !.st = "stopped", !.durations = ds],
              probe |-> pr,
              publish |-> FALSE]
        ELSE IF k < NUrls
        THEN [batch |-> [bt EXCEPT !.durations = ds],
              probe |-> [pr EXCEPT ![k + 1] = StartProbe],
              publish |-> FALSE]
        ELSE [batch |-> [bt EXCEPT !.st = "done", !.durations = ds],
              probe |-> pr,
              publish |-> TRUE]

\* mutant of Settle: the settled flag is not tested
SettleAgain(bt, pr, k, v) ==
    LoopAfter(bt, SettledProbe(pr, k, OrTwo(v)), k, OrTwo(v))

\* settle(v): if (settled) return; ... resolve(v || 2), and what follows
Settle(bt, pr, k, v) ==
    IF pr[k].st # "pending"
    THEN [batch |-> bt, probe |-> pr, publish |-> FALSE]
    ELSE LoopAfter(bt, SettledProbe(pr, k, OrTwo(v)), k, OrTwo(v))

\* setLoadedDurations(durations) and the re-render, when the step publishes
Publish(r) ==
    IF r.publish
    THEN /\ loadedDurations' =
              [i \in 1..Len(r.batch.durations) |-> RInt(r.batch.durations[i])]
         /\ timeRanges' = TimeRanges(dialogues, loadedDurations', duration)
    ELSE UNCHANGED <<loadedDurations, timeRanges>>

\* the state after an event of the prober with outcome r
Outcome(r) ==
    /\ batch' = r.batch
    /\ probe' = r.probe
    /\ Publish(r)
    /\ UNCHANGED <<dialogues, duration, mapTime, mapResult, effect>>
    /\ UNCHANGED <<pbvars, vcvars, ssvars, hkvars>>

\* the panel has mounted with NUrls audio URLs and the effect has run
PRInit ==
    /\ auth \in BOOLEAN
    /\ dialogues = [i \in 1..NUrls |-> 0]
    /\ loadedDurations = <<>>
    /\ duration = RZero
    /\ timeRanges = TimeRanges(dialogues, loadedDurations, RZero)
    /\ mapTime = NoTime
    /\ mapResult = NoResult
    /\ PanelIdle
    /\ effect = 1
    /\ batch = StartBatch
    /\ probe = StartProbes
    /\ VoiceCardIdle
    /\ StreamIdle
    /\ HookIdle

\* fetchAudioBlob resolved: createObjectURL, audio.src = objectUrl, load()
ProbeFetchDone(k) ==
    /\ probe[k].fetch = "inflight"
    /\ Outcome([batch |-> batch,
                probe |-> [probe EXCEPT ![k].fetch = "done",
                                        ![k].url = "live",
                                        ![k].load = "loading"],
                publish |-> FALSE])

\* fetchAudioBlob rejected (network error, !response.ok): catch -> settle(2)
ProbeFetchFails(k) ==
    /\ probe[k].fetch = "inflight"
    /\ Outcome(Settle(batch, [probe EXCEPT ![k].fetch = "failed"], k, 2))

\* the element loaded its metadata: onLoadedMetadata -> settle(audio.duration)
ProbeLoadedMetadata(k) ==
    /\ probe[k].load = "loading"
    /\ \E d \in ProbedSec :
          Outcome(Settle(batch, [probe EXCEPT ![k].load = "loaded",
                                              ![k].dur = d], k, d))

\* the element failed to load: onError -> settle(2)
ProbeMediaError(k) ==
    /\ probe[k].load = "loading"
    /\ Outcome(Settle(batch, [probe EXCEPT ![k].load = "error"], k, 2))

\* the 8 s timer of the probe fires: settle(2)
ProbeTimeout(k) ==
    /\ probe[k].timer
    /\ Outcome(Settle(batch, probe, k, 2))

\* the cleanup of the effect: cancelled = true; controller.abort(), which
\* rejects the fetches in flight and calls onAbort -> settle(2)
Cleanup ==
    LET aborted == [k \in Urls |->
                       IF probe[k].fetch = "inflight"
                       THEN [probe[k] EXCEPT !.fetch = "failed"]
                       ELSE probe[k]]
        flagged == [batch EXCEPT !.cancelled = TRUE]
        pend == {k \in Urls : probe[k].st = "pending"}
    IN  IF pend = {}
        THEN [batch |-> flagged, probe |-> aborted, publish |-> FALSE]
        ELSE Settle(flagged, aborted, CHOOSE k \in pend : TRUE, 2)

\* the panel unmounts: the cleanup of the effect
ProbeUnmount ==
    /\ ~batch.cancelled
    /\ Outcome(Cleanup)

\* the URL list changes: the cleanup of the effect and its next run, in one
\* commit
ProbeRestart ==
    /\ ~batch.cancelled
    /\ effect < MaxBatches
    /\ effect' = effect + 1
    /\ batch' = StartBatch
    /\ probe' = StartProbes
    /\ Publish(Cleanup)
    /\ UNCHANGED <<dialogues, duration, mapTime, mapResult>>
    /\ UNCHANGED <<pbvars, vcvars, ssvars, hkvars>>

PRNext ==
    \/ \E k \in Urls : ProbeFetchDone(k)
    \/ \E k \in Urls : ProbeFetchFails(k)
    \/ \E k \in Urls : ProbeLoadedMetadata(k)
    \/ \E k \in Urls : ProbeMediaError(k)
    \/ \E k \in Urls : ProbeTimeout(k)
    \/ ProbeUnmount
    \/ ProbeRestart

\* the 8 s timer of a pending probe fires unless it is cleared
SpecProbe ==
    /\ PRInit
    /\ [][PRNext]_vars
    /\ \A k \in Urls : WF_vars(ProbeTimeout(k))

(***************************************************************************)
(* SSE readers of api.ts: analyzeDialogueStream and matchVoicesStream.     *)
(* The response is a sequence of characters; a message is sent as          *)
(* `data: <json>\n\n`.  The JSON text of a message is two characters here, *)
(* its head (which tells the type and the content) and its closing brace,  *)
(* so that a message cut inside its JSON text does not parse.              *)
(***************************************************************************)
ChunkContents == {"a", "b"}

\* the messages of the interface guide
ChunkMsg(c) == [type |-> "chunk", content |-> c]
ResultMsg == [type |-> "result", content |-> "data"]
SseMessages == {ChunkMsg(c) : c \in ChunkContents} \cup {ResultMsg}

\* JSON.stringify of a message without its closing brace
JsonHead(m) == IF m.type = "chunk" THEN "{chunk:" \o m.content ELSE "{result"

SseChars == {"d", ":", " ", "}", "\n"} \cup {JsonHead(m) : m \in SseMessages}

\* `data: <json>\n\n`
Encode(m) == <<"d", ":", " ", JsonHead(m), "}", "\n", "\n">>

EncodeAll(ms) ==
    LET enc[i \in 0..Len(ms)] ==
            IF i = 0 THEN <<>> ELSE enc[i - 1] \o Encode(ms[i])
    IN  enc[Len(ms)]

\* JSON.parse(text): the parsed messages, none when it throws
JsonParse(text) ==
    {m \in SseMessages : text = <<JsonHead(m), "}">>}

\* if (data.type === 'chunk') onChunk(data.content)
\* else if (data.type === 'result') onResult(data.data)
Dispatch(text) ==
    IF JsonParse(text) = {} THEN <<>>
    ELSE LET data == CHOOSE m \in JsonParse(text) : TRUE
         IN  IF data.type = "chunk"
             THEN <<[cb |-> "onChunk", arg |-> data.content]>>
             ELSE <<[cb |-> "onResult", arg |-> data.content]>>

StartsWith(line, prefix) ==
    /\ Len(line) >= Len(prefix)
    /\ SubSeq(line, 1, Len(prefix)) = prefix

\* String.prototype.trimStart / trim, the white space being " "
TrimStart(line) ==
    IF \A i \in 1..Len(line) : line[i] = " " THEN <<>>
    ELSE SubSeq(line, CHOOSE i \in 1..Len(line) :
                          /\ line[i] # " "
                          /\ \A j \in 1..(i - 1) : line[j] = " ",
                Len(line))

Trim(line) ==
    LET l == TrimStart(line)
    IN  IF l = <<>> THEN <<>>
        ELSE SubSeq(l, 1, CHOOSE i \in 1..Len(l) :
                              /\ l[i] # " "
                              /\ \A j \in (i + 1)..Len(l) : l[j] = " ")

\* buffer.indexOf('\n'), 1-based, 0 for -1
IndexOfNewline(buf) ==
    IF \E i \in 1..Len(buf) : buf[i] = "\n"
    THEN CHOOSE i \in 1..Len(buf) :
            /\ buf[i] = "\n"
            /\ \A j \in 1..(i - 1) : buf[j] # "\n"
    ELSE 0

\* one line of analyzeDialogueStream: trim, startsWith('data:'),
\* slice(5).trimStart(), JSON.parse when the payload is not empty
AnalyzeLine(rawLine) ==
    LET line == Trim(rawLine)
    IN  IF StartsWith(line, <<"d", ":">>)
        THEN Dispatch(TrimStart(SubSeq(line, 3, Len(line))))
        ELSE <<>>

\* the inner while loop of analyzeDialogueStream: the complete lines of the
\* buffer are taken off its front, the rest stays in the buffer
DrainLines[buf \in Seq(SseChars)] ==
    LET newlineIndex == IndexOfNewline(buf)
    IN  IF newlineIndex = 0
        THEN [buffer |-> buf, calls |-> <<>>]
        ELSE LET rest == DrainLines[SubSeq(buf, newlineIndex + 1, Len(buf))]
             IN  [buffer |-> rest.buffer,
                  calls |-> AnalyzeLine(SubSeq(buf, 1, newlineIndex - 1))
                                \o rest.calls]

\* mutant of AnalyzeFeed: what is left after the last newline is dropped
AnalyzeFeedNoCarry(buf, value) ==
    [buffer |-> <<>>, calls |-> DrainLines[buf \o value].calls]

\* one pass of the read loop of analyzeDialogueStream:
\* buffer += decoder.decode(value, { stream: true }), then the inner loop
AnalyzeFeed(buf, value) == DrainLines[buf \o value]

\* text.split('\n')
SplitLines[text \in Seq(SseChars)] ==
    LET newlineIndex == IndexOfNewline(text)
    IN  IF newlineIndex = 0
        THEN <<text>>
        ELSE <<SubSeq(text, 1, newlineIndex - 1)>>
                \o SplitLines[SubSeq(text, newlineIndex + 1, Len(text))]

\* one line of matchVoicesStream: startsWith('data: '), JSON.parse(slice(6))
MatchLine(line) ==
    IF StartsWith(line, <<"d", ":", " ">>)
    THEN Dispatch(SubSeq(line, 4, Len(line)))
    ELSE <<>>

\* one pass of the read loop of matchVoicesStream: the lines of this network
\* chunk alone
MatchFeed(value) ==
    LET lines == SplitLines[value]
        calls[i \in 0..Len(lines)] ==
            IF i = 0 THEN <<>> ELSE calls[i - 1] \o MatchLine(lines[i])
    IN  calls[Len(lines)]

\* the responses: up to MaxChunkMsgs chunk messages, then the result message
Responses ==
    {cs \o <<ResultMsg>> :
        cs \in UNION {[1..n -> {ChunkMsg(c) : c \in ChunkContents}] :
                          n \in 0..MaxChunkMsgs}}

\* a stream function has been called and the response is about to be read
SSInit ==
    /\ dialogues = [i \in 1..NItems |-> 0]
    /\ loadedDurations = <<>>
    /\ duration = RZero
    /\ timeRanges = TimeRanges(dialogues, loadedDurations, RZero)
    /\ mapTime = NoTime
    /\ mapResult = NoResult
    /\ auth = FALSE
    /\ PanelIdle
    /\ ProberIdle
    /\ VoiceCardIdle
    /\ HookIdle
    /\ streamFn \in {"analyze", "match"}
    /\ sent \in Responses
    /\ wire = EncodeAll(sent)
    /\ sseBuffer = <<>>
    /\ delivered = <<>>
    /\ readerDone = FALSE

\* reader.read() of analyzeDialogueStream returns the next n characters
AnalyzeRead(n) ==
    /\ streamFn = "analyze"
    /\ ~readerDone
    /\ n <= Len(wire)
    /\ LET r == AnalyzeFeed(sseBuffer, SubSeq(wire, 1, n))
       IN  /\ sseBuffer' = r.buffer
           /\ delivered' = delivered \o r.calls
    /\ wire' = SubSeq(wire, n + 1, Len(wire))
    /\ UNCHANGED <<streamFn, sent, readerDone>>
    /\ UNCHANGED <<tlvars, pbvars, prvars, vcvars, hkvars>>

\* reader.read() of matchVoicesStream returns the next n characters
MatchRead(n) ==
    /\ streamFn = "match"
    /\ ~readerDone
    /\ n <= Len(wire)
    /\ delivered' = delivered \o MatchFeed(SubSeq(wire, 1, n))
    /\ wire' = SubSeq(wire, n + 1, Len(wire))
    /\ UNCHANGED <<streamFn, sent, sseBuffer, readerDone>>
    /\ UNCHANGED <<tlvars, pbvars, prvars, vcvars, hkvars>>

\* reader.read() returns done: the loop is left
ReadDone ==
    /\ ~readerDone
    /\ wire = <<>>
    /\ readerDone' = TRUE
    /\ UNCHANGED <<streamFn, sent, wire, sseBuffer, delivered>>
    /\ UNCHANGED <<tlvars, pbvars, prvars, vcvars, hkvars>>

\* the longest network chunk tried: a whole response
MaxRead == 7 * (MaxChunkMsgs + 1)

SSNext ==
    \/ \E n \in 1..MaxRead : AnalyzeRead(n)
    \/ \E n \in 1..MaxRead : MatchRead(n)
    \/ ReadDone

SpecStream == SSInit /\ [][SSNext]_vars

(***************************************************************************)
(* useTTSSession (the hook with the streaming operations).  A session is   *)
(* [id, status, dialogue_list, voice_mapping]; a list is 0 when empty, else *)
(* the id of the session whose list the backend returned.  A call and the  *)
(* promise reactions that follow it without a further event are one step:  *)
(* aborting an open stream rejects its fetch with an AbortError, so        *)
(* onError and the `finally` of the aborted call run right after the       *)
(* synchronous part of the caller.                                         *)
(***************************************************************************)
Sessions == 1..NSessions

\* the id api.createSession returns
NewSessionId == NSessions + 1

\* result.data of api.getSession(sid): a session just created, or one whose
\* dialogues were analysed
ServerSessions(sid) ==
    {[id |-> sid, status |-> "created", dialogue_list |-> 0,
      voice_mapping |-> 0],
     [id |-> sid, status |-> "dialogue_ready", dialogue_list |-> sid,
      voice_mapping |-> 0]}

SimpleKinds == {"refine", "changeVoice"}

Pending(o) == ops[o].promise = "pending"

\* cancelStreamRef.current?.() aborts a stream that is still open
Aborts == cancelStreamRef # 0 /\ ops[cancelStreamRef].stream = "open"

\* the calls after cancelStreamRef.current?.(): the aborted call, if any, has
\* its promise resolved by onError
AfterCancel ==
    IF Aborts THEN [ops EXCEPT ![cancelStreamRef] = FreeOp] ELSE ops

\* the number given to a new call: the lowest one without a pending promise
NewOp(os) ==
    CHOOSE o \in OpIds :
        /\ os[o].promise # "pending"
        /\ \A q \in OpIds : os[q].promise # "pending" => o <= q

HasRoom(os) == \E o \in OpIds : os[o].promise # "pending"

NewCall(kind, stream, latest) ==
    [kind |-> kind, promise |-> "pending", stream |-> stream,
     outcome |-> "none", sid |-> session.id, prevStatus |-> session.status,
     latest |-> latest]

NotLatest(os) == [o \in OpIds |-> [os[o] EXCEPT !.latest = FALSE]]

\* loadSession(sid) up to await api.getSession: the stream is cancelled,
\* setIsStreaming(false), setLoading(true), setError(null); then, if a stream
\* was aborted, its `finally`: setLoading(false), setIsStreaming(false)
LoadSession(sid) ==
    /\ HasRoom(AfterCancel)
    /\ LET os == NotLatest(AfterCancel)
       IN  ops' = [os EXCEPT ![NewOp(os)] = NewCall("load", "none", TRUE),
                             ![NewOp(os)].sid = sid]
    /\ cancelStreamRef' = 0
    /\ isStreaming' = FALSE
    /\ loading' = ~Aborts
    /\ error' = FALSE
    /\ UNCHANGED session
    /\ UNCHANGED <<tlvars, pbvars, prvars, vcvars, ssvars>>

\* createSession() up to await api.createSession
CreateSession ==
    /\ HasRoom(AfterCancel)
    /\ LET os == NotLatest(AfterCancel)
       IN  ops' = [os EXCEPT ![NewOp(os)] = NewCall("create", "none", FALSE)]
    /\ cancelStreamRef' = 0
    /\ isStreaming' = FALSE
    /\ loading' = ~Aborts
    /\ error' = FALSE
    /\ UNCHANGED session
    /\ UNCHANGED <<tlvars, pbvars, prvars, vcvars, ssvars>>

\* reset()
Reset ==
    /\ ops' = NotLatest(AfterCancel)
    /\ cancelStreamRef' = 0
    /\ session' = NoSession
    /\ loading' = FALSE
    /\ error' = FALSE
    /\ isStreaming' = FALSE
    /\ UNCHANGED <<tlvars, pbvars, prvars, vcvars, ssvars>>

\* analyzeDialogue / matchVoices up to the await of the stream promise:
\* setLoading(true), setError(null), setIsStreaming(true), the stream is
\* cancelled, the optimistic status is set, the stream function is called and
\* its cancel function stored; then, if a stream was aborted, its onError
\* (cancelStreamRef.current = null) and its `finally`
StartStream(kind) ==
    /\ HasRoom(AfterCancel)
    /\ LET o == NewOp(AfterCancel)
       IN  /\ ops' = [AfterCancel EXCEPT ![o] = NewCall(kind, "open", FALSE)]
           /\ cancelStreamRef' = IF Aborts THEN 0 ELSE o
    /\ session' = [session EXCEPT !.status = IF kind = "analyze"
                                             THEN "analyzing" ELSE "matching"]
    /\ loading' = ~Aborts
    /\ isStreaming' = ~Aborts
    /\ error' = FALSE
    /\ UNCHANGED <<tlvars, pbvars, prvars, vcvars, ssvars>>

AnalyzeDialogue ==
    /\ session # NoSession
    /\ StartStream("analyze")

\* matchVoices: without dialogues, or with a status other than
\* 'dialogue_ready', it sets the error and returns
MatchVoices ==
    /\ session # NoSession
    /\ IF session.dialogue_list = 0 \/ session.status # "dialogue_ready"
       THEN /\ error' = TRUE
            /\ UNCHANGED <<session, loading, isStreaming, cancelStreamRef, ops>>
            /\ UNCHANGED <<tlvars, pbvars, prvars, vcvars, ssvars>>
       ELSE StartStream("match")

\* refineDialogue / changeVoice up to the await of the request (the other
\* request operations have the same shape)
SimpleCall(kind) ==
    /\ session # NoSession
    /\ HasRoom(ops)
    /\ ops' = [ops EXCEPT ![NewOp(ops)] = NewCall(kind, "none", FALSE)]
    /\ loading' = TRUE
    /\ error' = FALSE
    /\ UNCHANGED <<session, isStreaming, cancelStreamRef>>
    /\ UNCHANGED <<tlvars, pbvars, prvars, vcvars, ssvars>>

\* setSession(prev => prev ? { ...prev, <fields of the result> } : null) of
\* a successful call of the given kind started on session sid
Merged(prev, kind, sid) ==
    IF prev = NoSession THEN NoSession
    ELSE CASE kind = "refine" -> [prev EXCEPT !.dialogue_list = sid]
           [] kind = "changeVoice" ->
                [prev EXCEPT !.voice_mapping = sid, !.status = "voice_ready"]
           [] kind = "analyze" ->
                [prev EXCEPT !.status = "dialogue_ready", !.dialogue_list = sid]
           [] kind = "match" ->
                [prev EXCEPT !.status = "voice_ready", !.voice_mapping = sid]

\* a call whose promise is settled: its closure is gone; what is kept of a
\* loadSession call is the id it asked for and how it ended
Over(op, outcome) ==
    IF op.kind = "load"
    THEN [FreeOp EXCEPT !.kind = "load", !.promise = "settled",
                        !.outcome = outcome, !.latest = op.latest,
                        !.sid = op.sid]
    ELSE FreeOp

Settled(o, outcome) == [ops EXCEPT ![o] = Over(ops[o], outcome)]

\* the request of call o returned with success: setSession, and `finally`
\* setLoading(false)
CallSucceeds(o) ==
    /\ Pending(o)
    /\ ops[o].kind \in SimpleKinds \cup {"load", "create"}
    /\ CASE ops[o].kind = "load" ->
                session' \in ServerSessions(ops[o].sid)
         [] ops[o].kind = "create" ->
                session' = [id |-> NewSessionId, status |-> "created",
                            dialogue_list |-> 0, voice_mapping |-> 0]
         [] OTHER ->
                session' = Merged(session, ops[o].kind, ops[o].sid)
    /\ ops' = Settled(o, "ok")
    /\ loading' = FALSE
    /\ UNCHANGED <<error, isStreaming, cancelStreamRef>>
    /\ UNCHANGED <<tlvars, pbvars, prvars, vcvars, ssvars>>

\* the request of call o returned success: false, or threw: setError, and
\* `finally` setLoading(false)
CallFails(o) ==
    /\ Pending(o)
    /\ ops[o].kind \in SimpleKinds \cup {"load", "create"}
    /\ ops' = Settled(o, "failed")
    /\ error' = TRUE
    /\ loading' = FALSE
    /\ UNCHANGED <<session, isStreaming, cancelStreamRef>>
    /\ UNCHANGED <<tlvars, pbvars, prvars, vcvars, ssvars>>

\* what a failed stream leaves of the session: matchVoices puts back the
\* status its closure saw (prevStatus), analyzeDialogue does not
Restored(prev, kind, prevStatus) ==
    IF kind = "match" /\ prev # NoSession
    THEN [prev EXCEPT !.status = prevStatus]
    ELSE prev

\* the stream of call o delivers its result message: onResult, resolve(), and
\* `finally` setLoading(false), setIsStreaming(false)
StreamResult(o, success) ==
    /\ Pending(o)
    /\ ops[o].stream = "open"
    /\ cancelStreamRef' = 0
    /\ IF success
       THEN /\ session' = Merged(session, ops[o].kind, ops[o].sid)
            /\ UNCHANGED error
       ELSE /\ session' = Restored(session, ops[o].kind, ops[o].prevStatus)
            /\ error' = TRUE
    /\ ops' = Settled(o, IF success THEN "ok" ELSE "failed")
    /\ loading' = FALSE
    /\ isStreaming' = FALSE
    /\ UNCHANGED <<tlvars, pbvars, prvars, vcvars, ssvars>>

\* the stream of call o fails (network error, or the HTTP error status that
\* analyzeDialogueStream tests): onError with an error that is no AbortError
StreamError(o) ==
    /\ Pending(o)
    /\ ops[o].stream = "open"
    /\ cancelStreamRef' = 0
    /\ session' = Restored(session, ops[o].kind, ops[o].prevStatus)
    /\ error' = TRUE
    /\ ops' = Settled(o, "failed")
    /\ loading' = FALSE
    /\ isStreaming' = FALSE
    /\ UNCHANGED <<tlvars, pbvars, prvars, vcvars, ssvars>>

\* the stream of call o ends without a result message: the read loop is left
\* and no callback is invoked
StreamEnds(o) ==
    /\ Pending(o)
    /\ ops[o].stream = "open"
    /\ ops' = [ops EXCEPT ![o].stream = "closed"]
    /\ UNCHANGED <<session, loading, error, isStreaming, cancelStreamRef>>
    /\ UNCHANGED <<tlvars, pbvars, prvars, vcvars, ssvars>>

\* the hook has rendered for the first time, without initialSessionId
HKInit ==
    /\ dialogues = [i \in 1..NItems |-> 0]
    /\ loadedDurations = <<>>
    /\ duration = RZero
    /\ timeRanges = TimeRanges(dialogues, loadedDurations, RZero)
    /\ mapTime = NoTime
    /\ mapResult = NoResult
    /\ auth = FALSE
    /\ PanelIdle
    /\ ProberIdle
    /\ VoiceCardIdle
    /\ StreamIdle
    /\ HookIdle

HKNext ==
    \/ \E sid \in Sessions : LoadSession(sid)
    \/ CreateSession
    \/ Reset
    \/ AnalyzeDialogue
    \/ MatchVoices
    \/ \E kind \in SimpleKinds : SimpleCall(kind)
    \/ \E o \in OpIds : CallSucceeds(o)
    \/ \E o \in OpIds : CallFails(o)
    \/ \E o \in OpIds : \E success \in BOOLEAN : StreamResult(o, success)
    \/ \E o \in OpIds : StreamError(o)
    \/ \E o \in OpIds : StreamEnds(o)

SpecSession == HKInit /\ [][HKNext]_vars

(***************************************************************************)
(* VoiceCard (VoiceMappingList.tsx): the preview object URL of one card.   *)
(* A state update and the commit that follows it are one step: the updater *)
(* passed to setPreviewUrl runs, then the cleanup of the effect that has   *)
(* previewUrl among its dependencies, when the value changed.              *)
(***************************************************************************)
\* releasePreviewUrl(url): if (!url) return; URL.revokeObjectURL(url)
ReleasePreviewUrl(rv, url) ==
    IF url = NoUrl THEN rv ELSE [rv EXCEPT ![url] = @ + 1]

\* the cleanup of the effect on [previewUrl]: it runs when previewUrl changes
\* and releases the value its render saw
PreviewUrlCleanup(rv, old, new) ==
    IF old # new THEN ReleasePreviewUrl(rv, old) ELSE rv

\* setPreviewUrl((prev) => { releasePreviewUrl(prev); return next }) and the
\* commit
SetPreviewUrl(rv, prev, next) ==
    PreviewUrlCleanup(ReleasePreviewUrl(rv, prev), prev, next)

\* the effect on [mapping.voice_id, mapping.preview_text]: the state is
\* reset, the preview URL released and the element emptied
ResetPreview ==
    /\ cardIsPlaying' = FALSE
    /\ previewUrl' = NoUrl
    /\ revoked' = SetPreviewUrl(revoked, previewUrl, NoUrl)
    /\ cardSrc' = NoUrl

\* togglePlay of the card. With a cached preview, ensurePreviewUrl returns it
\* at once: the card pauses when it is playing, else sets src and calls
\* play(). Without one, previewVoice is called.
CardTogglePlay ==
    /\ cardMounted
    /\ ~isPreviewLoading
    /\ previewOp.st = "idle"
    /\ IF previewUrl # NoUrl
       THEN /\ IF cardIsPlaying
               THEN /\ cardIsPlaying' = FALSE
                    /\ UNCHANGED <<cardSrc, previewOp>>
               ELSE /\ cardSrc' = previewUrl
                    /\ previewOp' = [st |-> "play", wasPlaying |-> FALSE]
                    /\ UNCHANGED cardIsPlaying
            /\ UNCHANGED isPreviewLoading
       ELSE /\ createdUrls < MaxPreviewUrls
            /\ isPreviewLoading' = TRUE
            /\ previewOp' = [st |-> "fetch", wasPlaying |-> cardIsPlaying]
            /\ UNCHANGED <<cardIsPlaying, cardSrc>>
    /\ UNCHANGED <<cardMounted, voiceId, previewUrl, isChanging, selectOp,
                   createdUrls, revoked>>
    /\ UNCHANGED <<tlvars, pbvars, prvars, ssvars, hkvars>>

\* previewVoice resolved: createObjectURL, setPreviewUrl, and togglePlay goes
\* on with the isPlaying its render saw. On an unmounted card the state
\* updates do nothing and audioRef.current is null.
CardPreviewDone ==
    /\ previewOp.st = "fetch"
    /\ createdUrls' = createdUrls + 1
    /\ IF cardMounted
       THEN /\ previewUrl' = createdUrls'
            /\ revoked' = SetPreviewUrl(revoked, previewUrl, createdUrls')
            /\ isPreviewLoading' = FALSE
            /\ IF previewOp.wasPlaying
               THEN /\ cardIsPlaying' = FALSE
                    /\ previewOp' = IdlePreviewOp
                    /\ UNCHANGED cardSrc
               ELSE /\ cardSrc' = createdUrls'
                    /\ previewOp' = [st |-> "play", wasPlaying |-> FALSE]
                    /\ UNCHANGED cardIsPlaying
       ELSE /\ previewOp' = IdlePreviewOp
            /\ UNCHANGED <<previewUrl, revoked, isPreviewLoading,
                           cardIsPlaying, cardSrc>>
    /\ UNCHANGED <<cardMounted, voiceId, isChanging, selectOp>>
    /\ UNCHANGED <<tlvars, pbvars, prvars, ssvars, hkvars>>

\* previewVoice rejected: setPreviewError, setIsPreviewLoading(false)
CardPreviewFails ==
    /\ previewOp.st = "fetch"
    /\ previewOp' = IdlePreviewOp
    /\ isPreviewLoading' = IF cardMounted THEN FALSE ELSE isPreviewLoading
    /\ UNCHANGED <<cardMounted, voiceId, previewUrl, isChanging, cardIsPlaying,
                   cardSrc, selectOp, createdUrls, revoked>>
    /\ UNCHANGED <<tlvars, pbvars, prvars, ssvars, hkvars>>

\* play() of the card resolved: setIsPlaying(true)
CardPlayResolves ==
    /\ previewOp.st = "play"
    /\ previewOp' = IdlePreviewOp
    /\ cardIsPlaying' = IF cardMounted THEN TRUE ELSE cardIsPlaying
    /\ UNCHANGED <<cardMounted, voiceId, previewUrl, isPreviewLoading,
                   isChanging, cardSrc, selectOp, createdUrls, revoked>>
    /\ UNCHANGED <<tlvars, pbvars, prvars, ssvars, hkvars>>

\* play() of the card rejected: setPreviewError
CardPlayRejects ==
    /\ previewOp.st = "play"
    /\ previewOp' = IdlePreviewOp
    /\ UNCHANGED <<cardMounted, voiceId, previewUrl, isPreviewLoading,
                   isChanging, cardIsPlaying, cardSrc, selectOp, createdUrls,
                   revoked>>
    /\ UNCHANGED <<tlvars, pbvars, prvars, ssvars, hkvars>>

\* <audio onEnded> of the card
CardEnded ==
    /\ cardMounted
    /\ cardIsPlaying
    /\ cardIsPlaying' = FALSE
    /\ UNCHANGED <<cardMounted, voiceId, previewUrl, isPreviewLoading,
                   isChanging, cardSrc, previewOp, selectOp, createdUrls,
                   revoked>>
    /\ UNCHANGED <<tlvars, pbvars, prvars, ssvars, hkvars>>

\* handleSelectVoice(voice) up to await onChangeVoice(...)
HandleSelectVoice(v) ==
    /\ cardMounted
    /\ ~isChanging
    /\ v # voiceId
    /\ selectOp = 0
    /\ isChanging' = TRUE
    /\ selectOp' = v
    /\ UNCHANGED <<cardMounted, voiceId, previewUrl, isPreviewLoading,
                   cardIsPlaying, cardSrc, previewOp, createdUrls, revoked>>
    /\ UNCHANGED <<tlvars, pbvars, prvars, ssvars, hkvars>>

\* onChangeVoice returned (useTTSSession.changeVoice does not throw: with
\* ok the mapping has the new voice, else it is unchanged): setIsPlaying(false),
\* setPreviewUrl(prev => { release(prev); null }), setIsChanging(false); with
\* a new voice_id the effect on it runs as well
CardChangeDone(ok) ==
    /\ selectOp # 0
    /\ selectOp' = 0
    /\ IF cardMounted
       THEN /\ voiceId' = IF ok THEN selectOp ELSE voiceId
            /\ isChanging' = FALSE
            /\ cardIsPlaying' = FALSE
            /\ previewUrl' = NoUrl
            /\ revoked' = SetPreviewUrl(revoked, previewUrl, NoUrl)
            /\ cardSrc' = IF ok THEN NoUrl ELSE cardSrc
       ELSE UNCHANGED <<voiceId, isChanging, cardIsPlaying, previewUrl,
                        revoked, cardSrc>>
    /\ UNCHANGED <<cardMounted, isPreviewLoading, previewOp, createdUrls>>
    /\ UNCHANGED <<tlvars, pbvars, prvars, ssvars, hkvars>>

\* the session brings another voice_id or preview_text for the character:
\* the effect on [mapping.voice_id, mapping.preview_text]
CardMappingChanges(v) ==
    /\ cardMounted
    /\ voiceId' = v
    /\ ResetPreview
    /\ UNCHANGED <<cardMounted, isPreviewLoading, isChanging, previewOp,
                   selectOp, createdUrls>>
    /\ UNCHANGED <<tlvars, pbvars, prvars, ssvars, hkvars>>

\* the card unmounts: the cleanup of the effect on [previewUrl]
CardUnmount ==
    /\ cardMounted
    /\ cardMounted' = FALSE
    /\ revoked' = ReleasePreviewUrl(revoked, previewUrl)
    /\ UNCHANGED <<voiceId, previewUrl, isPreviewLoading, isChanging,
                   cardIsPlaying, cardSrc, previewOp, selectOp, createdUrls>>
    /\ UNCHANGED <<tlvars, pbvars, prvars, ssvars, hkvars>>

VCNext ==
    \/ CardTogglePlay
    \/ CardPreviewDone
    \/ CardPreviewFails
    \/ CardPlayResolves
    \/ CardPlayRejects
    \/ CardEnded
    \/ \E v \in Voices : HandleSelectVoice(v)
    \/ \E ok \in BOOLEAN : CardChangeDone(ok)
    \/ \E v \in Voices : CardMappingChanges(v)
    \/ CardUnmount

SpecPreview == PBInit /\ [][VCNext]_vars


(***************************************************************************)
(* Properties of the playback state (checked under Spec).                  *)
(***************************************************************************)
\* the audio elements that are playing
PlayingItems == {i \in Items : itemEl[i] = "playing"}
PlayingElements ==
    Cardinality(PlayingItems) + (IF mergedEl.st = "playing" THEN 1 ELSE 0)

\* C1: in every reachable state at most one audio element (the merged one or
\* an item's) is playing.
C1_AtMostOnePlaying == PlayingElements <= 1

\* C2: when an item is started while the merged track is playing, then after
\* onPlayStart() and before the item's play() is invoked (the handler is at
\* "started") the merged element is paused and playingMerged is cleared.
C2_MergedPausedBeforeItemPlay ==
    \A i \in Items :
        (itemOp[i].st = "started" /\ itemOp[i].mergedWas = "playing") =>
            /\ mergedEl.st = "paused"
            /\ ~playingMerged
            /\ itemEl[i] = "paused"

\* an item was clicked while the merged track was playing past its start
C2_Witness ==
    \E i \in Items :
        /\ itemOp[i].st = "started"
        /\ itemOp[i].mergedWas = "playing"
        /\ mergedEl.time > 0
        /\ playingSource = "item"

\* C3: when merged playback is started while an item is playing, the item is
\* paused before the merged element's play() is invoked: at the step that
\* invokes play() on the merged element no item element is playing any more.
C3_ItemPausedBeforeMergedPlay ==
    [][(mergedEl.st = "paused" /\ mergedEl'.st = "starting") =>
            \A i \in Items : itemEl'[i] # "playing"]_vars

\* C4: when item i ends naturally its progress is cleared at once, and the
\* timer that fires after the grace delay leaves highlightIndex and
\* playingSource alone when another item was started in the meantime and
\* holds the highlight.
C4_TimerSparesNewItem ==
    [][/\ \A i \in Items :
            (ItemEnded(i) /\ playingItemIndex = i) => charProgress' = RZero
       /\ (TimerFires /\ playingItemIndex # NoIndex
                      /\ playingItemIndex # Head(timers)
                      /\ highlightIndex = playingItemIndex) =>
            (highlightIndex' = highlightIndex /\ playingSource' = "item")]_vars

\* C5: when play() is rejected or the fetch of the audio fails, no playback
\* state stays set for a source that is not playing: a failed start of item i
\* does not leave playingItemIndex at i, and a failed start of the merged
\* track does not leave a playing item without its playingItemIndex.
C5_NoDanglingStateAfterFailure ==
    [][/\ \A i \in Items :
            (ItemFetchFails(i) \/ ItemPlayRejects(i)) => playingItemIndex' # i
       /\ (MergedFetchFails \/ MergedPlayRejects) =>
            \A j \in Items :
                (itemEl'[j] = "playing" /\ highlightIndex' = j
                    /\ playingSource' = "item") => playingItemIndex' = j]_vars

NothingPlaying ==
    /\ mergedEl.st = "paused"
    /\ mergedOp.st = "idle"
    /\ \A j \in Items : itemEl[j] = "paused" /\ itemOp[j].st = "idle"

\* C14: a user-initiated pause of the playing source leads to Idle: the
\* paused element does not play, and when nothing else plays playingMerged is
\* false, playingItemIndex is null and playingSource is null or, for an item,
\* about to be cleared by the pending 500 ms timer.
C14_PauseLeadsToIdle ==
    [][/\ \A i \in Items : ItemPause(i) =>
              /\ itemEl'[i] = "paused"
              /\ NothingPlaying' =>
                    /\ ~playingMerged'
                    /\ playingItemIndex' = NoIndex
                    /\ (playingSource' = "null" \/ timers' # <<>>)
       /\ MergedPause =>
              /\ mergedEl'.st = "paused"
              /\ ~playingMerged'
              /\ NothingPlaying' =>
                    (playingItemIndex' = NoIndex /\ playingSource' = "null")]_vars

(***************************************************************************)
(* Properties of the duration prober (checked under SpecProbe).            *)
(***************************************************************************)
\* the probes of the run with a blob fetch or a metadata load in flight
InFlight == {k \in Urls : probe[k].fetch = "inflight" \/ probe[k].load = "loading"}

\* C15: a cancelled batch never applies a duration update: neither the step
\* of the cleanup (whatever probe was pending or in flight) nor any later
\* event of the cancelled run changes loadedDurations or makes the run
\* "done".
C15_CancelledNeverPublishes ==
    [][(ProbeUnmount \/ ProbeRestart \/ batch.cancelled) =>
            /\ loadedDurations' = loadedDurations
            /\ batch'.st # "done" \/ batch.st = "done"]_vars

\* a run cancelled while its first probe was loading and the rest had not
\* begun; the element finished loading afterwards
C15_Witness ==
    /\ batch.cancelled
    /\ batch.st = "stopped"
    /\ probe[1].st = "settled"
    /\ probe[1].load = "loaded"
    /\ probe[NUrls].st = "idle"
    /\ loadedDurations = <<>>

\* C16: within one batch at most one probe has a blob fetch or a metadata
\* load in flight at any time.
C16_OneProbeInFlight == Cardinality(InFlight) <= 1

\* C17: an object URL created for a probe is revoked on every exit path of
\* the probe: no probe that has settled holds an unrevoked object URL.
C17_ObjectUrlsRevoked ==
    \A k \in Urls : probe[k].st = "settled" => probe[k].url # "live"

\* C18: every probe settles exactly once, with the reported duration when
\* the metadata loads and with 2 on media error, fetch failure, abort or
\* timeout; later events of the probe do not change its value; every pending
\* probe settles and the batch terminates.
C18_SettlesOnce ==
    /\ [][\A k \in Urls :
            /\ (probe[k].st = "pending" /\ probe'[k].st = "settled") =>
                  probe'[k].value = (IF probe'[k].load = "loaded"
                                     THEN probe'[k].dur ELSE 2)
            /\ (probe[k].st = "settled" /\ effect' = effect) =>
                  /\ probe'[k].st = "settled"
                  /\ probe'[k].value = probe[k].value
                  /\ batch'.durations[k] = batch.durations[k]]_vars
    /\ [](Len(batch.durations) = Cardinality({k \in Urls : probe[k].st = "settled"}))
    /\ \A k \in Urls : (probe[k].st = "pending") ~> (probe[k].st # "pending")
    /\ <>[](batch.st # "running")

\* a probe ended by its timeout whose element loaded its metadata afterwards
C18_Witness ==
    /\ probe[1].st = "settled"
    /\ probe[1].value = 2
    /\ probe[1].load = "loaded"
    /\ probe[1].dur = 3
    /\ batch.durations[1] = 2

\* C19: loadedDurations changes only in the step in which an uncancelled
\* batch finishes: all its probes have settled, the published list has the
\* length of the URL list and its k-th entry is the value of the k-th probe;
\* a batch that has published does not publish again, and a batch that is
\* never cancelled does publish.
C19_PublishesOnceWhenAllSettled ==
    /\ [][/\ (loadedDurations' # loadedDurations
                    \/ (batch.st # "done" /\ batch'.st = "done")) =>
                /\ ~batch.cancelled /\ ~batch'.cancelled
                /\ batch.st = "running" /\ batch'.st = "done"
                /\ \A k \in Urls : probe'[k].st = "settled"
                /\ Len(loadedDurations') = NUrls
                /\ \A k \in Urls : loadedDurations'[k] = RInt(probe'[k].value)
          /\ batch.st = "done" =>
                (loadedDurations' = loadedDurations
                    /\ (batch'.st = "done" \/ effect' # effect))]_vars
    /\ <>[](batch.cancelled \/ batch.st = "done")

\* a batch published the probed duration of its first URL and the default
\* for its last
C19_Witness ==
    /\ batch.st = "done"
    /\ ~batch.cancelled
    /\ loadedDurations[1] = RInt(3)
    /\ loadedDurations[NUrls] = RInt(2)
    /\ \A k \in Urls : probe[k].st = "settled"

(***************************************************************************)
(* Properties of the timeline reconstructor and of the mapper              *)
(* (checked under SpecTimeline).                                           *)
(***************************************************************************)
\* the inputs and the output of the reconstructor in the current state
NumItems == Len(dialogues)
Estimates == ItemDurationsSec(dialogues, loadedDurations)
EstimatesTotal == RSum(Estimates)

\* C6: for every input (n >= 0 positive estimates, D >= 0) the ranges are
\* ordered and do not overlap: range[0].start = 0, start <= end for every
\* range, and range[i].end <= range[i+1].start.
C6_OrderedNonOverlapping ==
    /\ NumItems > 0 => timeRanges[1].start = RZero
    /\ \A i \in 1..NumItems : RLe[timeRanges[i].start, timeRanges[i].end]
    /\ \A i \in 1..(NumItems - 1) :
            RLe[timeRanges[i].end, timeRanges[i + 1].start]

\* a total shorter than the estimates: the inferred gap would be negative
C6_Witness ==
    /\ NumItems = 3
    /\ duration = RInt(4)
    /\ RLt[duration, EstimatesTotal]

\* C7 as stated: the ranges are contiguous, range[i].end = range[i+1].start.
C7_Contiguous ==
    \A i \in 1..(NumItems - 1) : timeRanges[i].end = timeRanges[i + 1].start

\* C7 amended: consecutive ranges are separated by one and the same
\* non-negative distance, which is 0 (the ranges are contiguous) exactly when
\* D > 0 and D <= sum(d); otherwise it is positive (the inter-clip silence).
C7_UniformGap ==
    \A i \in 1..(NumItems - 1) :
        LET dist == RSub[timeRanges[i + 1].start, timeRanges[i].end]
        IN  /\ dist = RSub[timeRanges[2].start, timeRanges[1].end]
            /\ RLe[RZero, dist]
            /\ (dist = RZero) <=>
                  (RLt[RZero, duration] /\ RLe[duration, EstimatesTotal])

C7_Witness ==
    /\ NumItems = 3
    /\ duration = RInt(3)
    /\ timeRanges[1].end = timeRanges[2].start
    /\ timeRanges[2].end = timeRanges[3].start

\* C8: when D > 0 and n >= 1 the last range ends exactly at D (the range
\* lengths and the scaled gaps add up to D), whether D >= sum(d), D < sum(d)
\* or n = 1.
C8_SpansDuration ==
    (RLt[RZero, duration] /\ NumItems >= 1) =>
        timeRanges[NumItems].end = duration

\* the scaled case: D < sum(d)
C8_Witness ==
    /\ NumItems = 2
    /\ duration = RInt(1)
    /\ RLt[duration, EstimatesTotal]
    /\ timeRanges[2].end = RInt(1)

\* C9: once the mapper was called with time t: for an empty range list it
\* returns no index; for range[i].start <= t < range[i].end it returns i with
\* progress (t - start) / (end - start), which lies in [0, 1]; for t at or past
\* the last range's end it returns the last index with progress 1.
C9_MapperContract ==
    mapTime # NoTime =>
        /\ NumItems = 0 => mapResult.index = NoIndex
        /\ \A i \in 1..NumItems :
              (RLe[timeRanges[i].start, mapTime] /\ RLt[mapTime, timeRanges[i].end]) =>
                  /\ mapResult.index = i - 1
                  /\ mapResult.progress =
                        RDiv[RSub[mapTime, timeRanges[i].start],
                             RSub[timeRanges[i].end, timeRanges[i].start]]
                  /\ RLe[RZero, mapResult.progress]
                  /\ RLe[mapResult.progress, ROne]
        /\ (NumItems > 0 /\ RLe[timeRanges[NumItems].end, mapTime]) =>
              /\ mapResult.index = NumItems - 1
              /\ mapResult.progress = ROne

\* a time strictly inside the second of three ranges
C9_Witness ==
    /\ NumItems = 3
    /\ mapTime # NoTime
    /\ RLt[timeRanges[2].start, mapTime]
    /\ RLt[mapTime, timeRanges[2].end]
    /\ mapResult.index = 1

\* C10: when D > 0, n > 1 and D >= sum(d): every range has length d[i] (scale
\* 1) and start[i+1] = end[i] + (D - sum(d)) / (n - 1).  Instance:
\* d = [2, 3, 1], D = 8 gives [0,2), [3,6), [7,8), and the mapper at t = 4.5
\* returns index 1 with progress 0.5.
C10_GapInference ==
    /\ (RLt[RZero, duration] /\ NumItems > 1 /\ RLe[EstimatesTotal, duration]) =>
          /\ \A i \in 1..NumItems :
                RSub[timeRanges[i].end, timeRanges[i].start] = Estimates[i]
          /\ \A i \in 1..(NumItems - 1) :
                timeRanges[i + 1].start =
                    RAdd[timeRanges[i].end,
                         RDiv[RSub[duration, EstimatesTotal], RInt(NumItems - 1)]]
    /\ (Estimates = <<RInt(2), RInt(3), RInt(1)>> /\ duration = RInt(8)) =>
          /\ timeRanges = << [start |-> RInt(0), end |-> RInt(2)],
                             [start |-> RInt(3), end |-> RInt(6)],
                             [start |-> RInt(7), end |-> RInt(8)] >>
          /\ mapTime = Rat[9, 2] =>
                mapResult = [index |-> 1, progress |-> Rat[1, 2]]

C10_Witness ==
    /\ Estimates = <<RInt(2), RInt(3), RInt(1)>>
    /\ duration = RInt(8)
    /\ mapTime = Rat[9, 2]
    /\ mapResult.index = 1

\* C11: when D = 0 (merged duration unknown) the scale is 1 and the gap is the
\* default 0.5 s: range i has length exactly the raw estimate of item i (the
\* probed duration, else duration_ms / 1000, else 2) and
\* start[i+1] = end[i] + 0.5.  Instance: d = [2, 3, 1] gives [0,2),
\* [2.5,5.5), [6,7).
C11_UnknownDuration ==
    duration = RZero =>
        /\ \A i \in 1..NumItems :
              RSub[timeRanges[i].end, timeRanges[i].start] =
                  (IF loadedDurations[i] # RZero THEN loadedDurations[i]
                   ELSE IF dialogues[i] # 0 THEN Rat[dialogues[i], 1000]
                   ELSE RInt(2))
        /\ \A i \in 1..(NumItems - 1) :
              timeRanges[i + 1].start = RAdd[timeRanges[i].end, Rat[1, 2]]
        /\ (dialogues = <<0, 0, 1000>>
                /\ loadedDurations = <<RZero, RInt(3), RZero>>) =>
              timeRanges = << [start |-> RInt(0), end |-> RInt(2)],
                              [start |-> Rat[5, 2], end |-> Rat[11, 2]],
                              [start |-> RInt(6), end |-> RInt(7)] >>

\* the instance d = [2, 3, 1] with the duration unknown, the mapper applied
C11_Witness ==
    /\ duration = RZero
    /\ dialogues = <<0, 0, 1000>>
    /\ loadedDurations = <<RZero, RInt(3), RZero>>
    /\ timeRanges[3].end = RInt(7)
    /\ mapTime # NoTime

(***************************************************************************)
(* Properties of the voice-preview card.                                   *)
(***************************************************************************)
\* C20: no object URL is released twice; for the voice-preview card,
\* URL.revokeObjectURL is called at most once with each object URL the card
\* created.
C20_ReleasedAtMostOnce == \A u \in PreviewUrls : revoked[u] <= 1

\* C21: no object URL is leaked; for the voice-preview card, an object URL
\* the card created has been revoked once it is no longer the card's
\* previewUrl or the card has unmounted.
C21_ReleasedWhenDropped ==
    \A u \in PreviewUrls :
        (u <= createdUrls /\ (u # previewUrl \/ ~cardMounted)) =>
            revoked[u] >= 1

(***************************************************************************)
(* Further properties of the panel.                                        *)
(***************************************************************************)
\* C24: in every reachable state of the panel playingMerged is true exactly
\* when playingSource is 'merged'.
C24_MergedFlagMatchesSource == playingMerged <=> (playingSource = "merged")

(***************************************************************************)
(* Further properties of the duration prober.                              *)
(***************************************************************************)
\* C25: loadedDurations is empty or the list the latest run of the effect,
\* the one probing the current URL list, has published.
C25_DurationsOfCurrentUrls ==
    loadedDurations # <<>> =>
        /\ batch.st = "done"
        /\ Len(loadedDurations) = NUrls
        /\ \A k \in Urls : loadedDurations[k] = RInt(probe[k].value)

(***************************************************************************)
(* Further properties of the timeline.                                     *)
(***************************************************************************)
\* the time handed to the mapper lies in a gap between two ranges
InGap ==
    \E i \in 1..(NumItems - 1) :
        /\ RLe[timeRanges[i].end, mapTime]
        /\ RLt[mapTime, timeRanges[i + 1].start]

\* C30: for a non-empty timeline whose ranges have positive length and a time
\* t >= 0, the mapper returns no index exactly when t lies in a gap between
\* two ranges, and then the progress is 0.
C30_NoIndexOnlyInGap ==
    (/\ mapTime # NoTime
     /\ NumItems > 0
     /\ \A i \in 1..NumItems : RLt[timeRanges[i].start, timeRanges[i].end]) =>
        /\ (mapResult.index = NoIndex) <=> InGap
        /\ (mapResult.index = NoIndex) => mapResult.progress = RZero

\* a time strictly inside the gap between the first and the second range
C30_Witness ==
    /\ NumItems > 1
    /\ mapTime # NoTime
    /\ RLt[timeRanges[1].end, mapTime]
    /\ RLt[mapTime, timeRanges[2].start]
    /\ mapResult = NoResult

(***************************************************************************)
(* Properties of the SSE readers.                                          *)
(***************************************************************************)
\* the callbacks the messages sent call for, in order
Expected ==
    [i \in 1..Len(sent) |->
        [cb |-> IF sent[i].type = "chunk" THEN "onChunk" ELSE "onResult",
         arg |-> sent[i].content]]

IsPrefix(a, b) == Len(a) <= Len(b) /\ a = SubSeq(b, 1, Len(a))

\* C22: however the response is split into network chunks,
\* analyzeDialogueStream invokes the callbacks of the messages sent, once
\* each and in order: at any time a prefix of them, and all of them when the
\* stream has ended.
C22_AnalyzeDeliversAll ==
    streamFn = "analyze" =>
        /\ IsPrefix(delivered, Expected)
        /\ readerDone => delivered = Expected

\* a response of two chunk messages and the result whose result message is
\* cut inside its JSON text: the chunks are delivered, the first part of the
\* result message waits in the buffer and the rest is still to be read
C22_Witness ==
    /\ streamFn = "analyze"
    /\ Len(sent) = 3
    /\ delivered = SubSeq(Expected, 1, 2)
    /\ sseBuffer = <<"d", ":", " ", JsonHead(ResultMsg)>>
    /\ wire = <<"}", "\n", "\n">>

\* C23: however the response is split into network chunks, matchVoicesStream
\* invokes the callbacks of the messages sent, once each and in order, also
\* for a message whose characters are split across two network chunks.
C23_MatchDeliversAll ==
    streamFn = "match" =>
        /\ IsPrefix(delivered, Expected)
        /\ readerDone => delivered = Expected

(***************************************************************************)
(* Properties of useTTSSession                                             *)
(***************************************************************************)
\* C26: the result of a request operation started on one session is never
\* merged into another one: a response that arrives while the hook holds a
\* session other than the one the operation was started on leaves that
\* session as it is.
C26_LateResultNotMerged ==
    [][\A o \in OpIds :
          ( /\ CallSucceeds(o)
            /\ ops[o].kind \in SimpleKinds
            /\ session # NoSession
            /\ session.id # ops[o].sid )
          => session' = session
      ]_vars

LoadInFlight == \E o \in OpIds : Pending(o) /\ ops[o].kind = "load"

\* C27: once every loadSession response has arrived, the session loaded is
\* the one the latest call asked for, and loading is false only when no
\* loadSession is in flight.
C27_LastLoadWins ==
    /\ [](\A o \in OpIds :
             ( /\ ops[o].kind = "load"
               /\ ops[o].latest
               /\ ops[o].outcome = "ok"
               /\ ~LoadInFlight
               /\ session.id \in Sessions ) => session.id = ops[o].sid)
    /\ [][\A o \in OpIds :
             ( /\ CallSucceeds(o) \/ CallFails(o)
               /\ ops[o].kind = "load"
               /\ LoadInFlight' ) => loading'
         ]_vars

\* C28: a streaming operation terminates however its stream behaves: no
\* call is left with its stream closed and its promise pending, and once no
\* request or stream is open, loading and isStreaming are false.
C28_StreamsSettle ==
    /\ \A o \in OpIds : Pending(o) => ops[o].stream # "closed"
    /\ (\A o \in OpIds : Pending(o) => ops[o].stream = "closed")
           => (~loading /\ ~isStreaming)

\* the failure of call o: success false, a thrown error, or a stream error
Failure(o) == CallFails(o) \/ StreamResult(o, FALSE) \/ StreamError(o)

\* the status of the session while call o is on its way, when no other call
\* has touched it
StatusDuring(o) ==
    CASE ops[o].kind = "analyze" -> "analyzing"
      [] ops[o].kind = "match" -> "matching"
      [] OTHER -> ops[o].prevStatus

\* C29: a failed operation sets the error and leaves the session as it was
\* before the operation started, its status included (taken for a session
\* that no other call has replaced or given another status meanwhile).
C29_FailureKeepsSession ==
    [][\A o \in OpIds :
          ( /\ Failure(o)
            /\ ops[o].kind # "load"
            /\ ops[o].kind # "create"
            /\ session.id = ops[o].sid
            /\ session.status = StatusDuring(o) )
          => ( /\ error'
               /\ session' = [session EXCEPT !.status = ops[o].prevStatus] )
      ]_vars

====
